---- MODULE Spec2Model ----
(***************************************************************************)
(* Power-Monitor-Bot: the poll loop of TuyaMonitor, the transition         *)
(* callback PowerMonitorBot.on_power_change, the schedule cache            *)
(* YasnoParser and the event store DatabaseManager.                        *)
(*                                                                         *)
(* Optional booleans of the Python code (None / True / False) are the      *)
(* strings "None", "True", "False".  A time string "HH:MM" is the sequence *)
(* of its characters; the empty sequence stands for Python's None.         *)
(* The clock `now` counts seconds from midnight of the day the process     *)
(* started on.                                                             *)
(***************************************************************************)
EXTENDS Integers, Sequences, FiniteSets, TLC

VARIABLES
    now,               \* datetime.now(), in seconds
    pc,                \* position of the poll thread
    last_status,       \* TuyaMonitor.last_status
    last_change_time,  \* TuyaMonitor.last_change_time
    current_status,    \* check_status: local current_status
    cb_has_power,      \* on_power_change: argument has_power
    cb_duration,       \* on_power_change: argument duration_seconds
    classified,        \* on_power_change: is_outage_planned() was called
    is_planned,        \* on_power_change: local is_planned
    end_time,          \* on_power_change: local end_time
    fetch_ret,         \* return value of the last fetch_schedule()
    save_exc,          \* save_power_event: the except branch was taken
    event_id,          \* return value of save_power_event
    data,              \* YasnoParser.data
    events,            \* table power_events, in insertion order
    db_state,          \* table current_state, row id = 1, column has_power
    sent,              \* messages delivered by send_message
    readings,          \* history: the successful readings, in order
    calls,             \* history: the callback invocations, in order
    cb_raised,         \* history: the callback has raised at least once
    boot,              \* the clock when the process was started
    last_good,         \* history: the document of the last successful fetch
    is_silent,         \* on_power_change: local is_silent
    night,             \* NIGHT_START and NIGHT_END, in seconds of the day
    stats,             \* table power_statistics, most recent day first
    rows,              \* the rows a handler got from the database
    text,              \* the message a digest or a command handler built
    upstream_failed,   \* history: a fetch or a database read of the handler failed
    fetched,           \* history: the documents assigned to YasnoParser.data, in order
    seen,              \* get_today_schedule: the object `not self.data` tested
    observed,          \* get_today_schedule: the document the result was taken from
    hpc,               \* position of a command handler inside get_status_info
    info,              \* get_status_info: the dictionary being built
    inflight,          \* fetch_schedule: per caller, the response not yet assigned
    served             \* history: the documents the provider served, in order

vars == <<now, pc, last_status, last_change_time, current_status,
          cb_has_power, cb_duration, classified, is_planned, end_time,
          fetch_ret, save_exc, event_id, data, events, db_state, sent,
          readings, calls, cb_raised, boot, last_good, is_silent, night,
          stats, rows, text, upstream_failed, fetched, seen, observed, hpc,
          info, inflight, served>>

\* what the poll thread never writes
otherVars == <<boot, night, stats, rows, text, upstream_failed, fetched, seen,
               observed, hpc, info, inflight, served>>

(***************************************************************************)
(* Bounds of the model.                                                    *)
(***************************************************************************)
\* the clock stops advancing here
MaxTime == 90
\* config.POLL_INTERVAL, the sleep between two polls (config is not part of
\* the sources; any positive value is possible)
PollInterval == 30
\* seconds a schedule request may block (requests.get(..., timeout=10))
FetchTimeout == 10

NoTime == <<>>

\* get_status_info's result before it is built; `since` and `at` are the
\* last_change_time and the clock that duration_seconds was computed from
NoInfo == [has_power |-> "None", duration_seconds |-> 0, since |-> 0, at |-> 0]

(***************************************************************************)
(* Schedule documents.  A slot is a record; `keys` is FALSE when the       *)
(* provider's slot lacks the "start"/"end" keys.                           *)
(***************************************************************************)
Slot(t, s, e) == [type |-> t, start |-> s, end |-> e, keys |-> TRUE]
BadSlot(t) == [type |-> t, start |-> 0, end |-> 0, keys |-> FALSE]

\* a parsed response: loaded = the JSON is a non-empty object, has_group =
\* it has an entry for the configured group, slots = today.slots
\* date = the day today.date names, counted like the clock
Doc(slots) == [loaded |-> TRUE, has_group |-> TRUE, slots |-> slots, date |-> 0]
NoData == [loaded |-> FALSE, has_group |-> FALSE, slots |-> <<>>, date |-> 0]
NoGroupDoc == [loaded |-> TRUE, has_group |-> FALSE, slots |-> <<>>, date |-> 0]

DocPlanned == Doc(<<Slot("NotPlanned", 0, 1440), Slot("Definite", 1, 2)>>)
DocOther == Doc(<<Slot("NotPlanned", 0, 1440)>>)
DocBad == Doc(<<BadSlot("Definite")>>)
Docs == {DocPlanned, DocOther, DocBad}

\* what one HTTP request can produce
Responses == {[ok |-> FALSE, doc |-> NoData]} \cup {[ok |-> TRUE, doc |-> d] : d \in Docs}

\* the threads that call fetch_schedule: the poll thread (on_power_change),
\* the daily digest job, a /schedule or /status handler
Callers == {"poll", "daily", "cmd"}

\* no request is waiting to be assigned
NoneInFlight == [c \in Callers |-> [busy |-> FALSE, resp |-> [ok |-> FALSE, doc |-> NoData]]]

\* the calendar day of an instant
Day(t) == t \div 86400

\* the provider dates a document with the day on which it serves it
Dated(resp, t) ==
    IF resp.ok THEN [resp EXCEPT !.doc.date = Day(t)] ELSE resp

(***************************************************************************)
(* YasnoParser                                                             *)
(***************************************************************************)
fetch_schedule_bad(cached, resp) ==
    [data |-> resp.doc, ret |-> IF resp.ok THEN "True" ELSE "False"]

fetch_schedule_keep(cached, resp) ==
    [data |-> cached, ret |-> IF resp.ok THEN "True" ELSE "False"]

fetch_schedule(cached, resp) ==
    IF resp.ok
    THEN [data |-> resp.doc, ret |-> "True"]
    ELSE [data |-> cached, ret |-> "False"]

DigitChar(d) == <<"0", "1", "2", "3", "4", "5", "6", "7", "8", "9">>[d + 1]

RECURSIVE Digits(_)
Digits(n) == IF n < 10 THEN <<DigitChar(n)>> ELSE Digits(n \div 10) \o <<DigitChar(n % 10)>>

\* format spec 02d
Pad2(n) == IF n < 10 THEN <<"0">> \o Digits(n) ELSE Digits(n)

minutes_to_time(minutes) ==
    LET hours == minutes \div 60
        mins == minutes % 60
    IN Pad2(hours) \o <<":">> \o Pad2(mins)

get_today_schedule(d) ==
    IF ~d.loaded THEN [found |-> FALSE, slots |-> <<>>]
    ELSE IF ~d.has_group THEN [found |-> FALSE, slots |-> <<>>]
    ELSE [found |-> TRUE, slots |-> d.slots]

\* check_time.hour * 60 + check_time.minute
current_minutes(t) == ((t \div 3600) % 24) * 60 + ((t \div 60) % 60)

SlotMatches_incl(slot, m) == slot.start <= m /\ m <= slot.end

SlotMatches(slot, m) == slot.start <= m /\ m < slot.end

IsDefinite(slot) == slot.type = "Definite"

RECURSIVE ScanSlots_last(_, _)
ScanSlots_last(slots, m) ==
    IF slots = <<>>
    THEN [raised |-> FALSE, is_planned |-> FALSE, end_time |-> NoTime]
    ELSE LET slot == Head(slots)
             rest == ScanSlots_last(Tail(slots), m)
         IN
         IF IsDefinite(slot) /\ ~slot.keys
         THEN [raised |-> TRUE, is_planned |-> FALSE, end_time |-> NoTime]
         ELSE IF rest.raised \/ rest.is_planned
         THEN rest
         ELSE IF IsDefinite(slot) /\ SlotMatches(slot, m)
         THEN [raised |-> FALSE, is_planned |-> TRUE,
               end_time |-> minutes_to_time(slot.end)]
         ELSE rest

RECURSIVE ScanSlots(_, _)
ScanSlots(slots, m) ==
    IF slots = <<>>
    THEN [raised |-> FALSE, is_planned |-> FALSE, end_time |-> NoTime]
    ELSE LET slot == Head(slots) IN
         IF IsDefinite(slot)
         THEN IF ~slot.keys
              THEN [raised |-> TRUE, is_planned |-> FALSE, end_time |-> NoTime]
              ELSE IF SlotMatches(slot, m)
                   THEN [raised |-> FALSE, is_planned |-> TRUE,
                         end_time |-> minutes_to_time(slot.end)]
                   ELSE ScanSlots(Tail(slots), m)
         ELSE ScanSlots(Tail(slots), m)

is_outage_planned(d, t) ==
    LET schedule == get_today_schedule(d) IN
    IF ~schedule.found
    THEN [raised |-> FALSE, is_planned |-> FALSE, end_time |-> NoTime]
    ELSE ScanSlots(schedule.slots, current_minutes(t))

\* get_full_schedule_text raises KeyError on a Definite slot without keys
schedule_text_raises(d) ==
    LET schedule == get_today_schedule(d) IN
    /\ schedule.found
    /\ \E i \in 1..Len(schedule.slots) :
          IsDefinite(schedule.slots[i]) /\ ~schedule.slots[i].keys

(***************************************************************************)
(* DatabaseManager                                                         *)
(***************************************************************************)
save_power_event(log, ok, rec) ==
    IF ok
    THEN [events |-> Append(log, rec), exc |-> FALSE, ret |-> "id"]
    ELSE [events |-> log, exc |-> TRUE, ret |-> "None"]

update_current_state(row, ok, has_power) == IF ok THEN has_power ELSE row

(***************************************************************************)
(* PowerMonitorBot.on_power_change: the value stored as is_planned         *)
(***************************************************************************)
stored_is_planned_raw(has_power, planned) == planned

stored_is_planned(has_power, planned) ==
    IF has_power # "True" THEN planned ELSE FALSE

(***************************************************************************)
(* TuyaMonitor.check_status: which branch a reading takes                  *)
(***************************************************************************)
check_branch_nofail(cs, ls) ==
    IF ls = "None" THEN "init"
    ELSE IF cs # ls THEN "changed"
    ELSE "same"

check_branch(cs, ls) ==
    IF cs = "None" THEN "error"
    ELSE IF ls = "None" THEN "init"
    ELSE IF cs # ls THEN "changed"
    ELSE "same"

(***************************************************************************)
(* TuyaMonitor.start_monitoring: where the loop goes on after              *)
(* `except Exception`                                                      *)
(***************************************************************************)
after_exception_stop == "stopped"

after_exception_update == "update"

after_exception == "sleep"

(***************************************************************************)
(* Initial state: after PowerMonitorBot.__init__                           *)
(***************************************************************************)
LocalsReset ==
    /\ cb_has_power' = "None"
    /\ cb_duration' = 0
    /\ classified' = FALSE
    /\ is_planned' = FALSE
    /\ end_time' = NoTime
    /\ save_exc' = FALSE
    /\ event_id' = "unset"
    /\ is_silent' = FALSE

LocalsUnchanged ==
    UNCHANGED <<cb_has_power, cb_duration, classified, is_planned, end_time,
                save_exc, event_id, is_silent>>

(***************************************************************************)
(* PowerMonitorBot.is_night_time.  The server's local time is taken to be  *)
(* Kyiv time, so get_kyiv_time().time() is the clock's second of the day.  *)
(***************************************************************************)
kyiv_time_of_day(t) == t % 86400

is_night_time_closed(current_time, w) ==
    IF w.start > w.end
    THEN current_time >= w.start \/ current_time <= w.end
    ELSE w.start <= current_time /\ current_time <= w.end

is_night_time(current_time, w) ==
    IF w.start > w.end
    THEN current_time >= w.start \/ current_time < w.end
    ELSE w.start <= current_time /\ current_time < w.end

(***************************************************************************)
(* PowerMonitorBot.on_power_change: the order of its statements            *)
(***************************************************************************)
on_power_change_next_sendfirst(p) ==
    CASE p = "cb_classify" -> "cb_send"
      [] p = "cb_send" -> "cb_save"
      [] p = "cb_save" -> "update"

on_power_change_next(p) ==
    CASE p = "cb_classify" -> "cb_save"
      [] p = "cb_save" -> "cb_send"
      [] p = "cb_send" -> "update"

\* the window of the source: 23:00 - 06:00
NightWindow == [start |-> 23 * 3600, end |-> 6 * 3600]

\* a message text: its kind and the values it shows
NoText == [kind |-> "none", total_outages |-> 0, total_planned |-> 0,
           total_emergency |-> 0, total_duration |-> 0, avg_duration |-> 0,
           days_with_outages |-> 0, period |-> <<>>, worst |-> <<>>,
           sched |-> "none", lines |-> <<>>]

\* a delivered message
Msg(kind, has_power, planned, expected_end, silent) ==
    [kind |-> kind, has_power |-> has_power, planned |-> planned,
     end_time |-> expected_end, silent |-> silent]

\* the process starts at 00:00:00 or at 23:59:30
BootTimes == {0, 86370}

OtherInit ==
    /\ night = NightWindow
    /\ stats = <<>>
    /\ rows = <<>>
    /\ text = NoText
    /\ upstream_failed = FALSE
    /\ is_silent = FALSE
    /\ fetched = <<>>
    /\ seen = NoData
    /\ observed = NoData
    /\ hpc = "idle"
    /\ info = NoInfo
    /\ inflight = NoneInFlight
    /\ served = <<>>

Init ==
    /\ boot \in BootTimes
    /\ last_good = NoData
    /\ now = boot
    /\ pc = "start"
    /\ last_status = "None"
    /\ last_change_time = boot
    /\ OtherInit
    /\ current_status = "None"
    /\ cb_has_power = "None"
    /\ cb_duration = 0
    /\ classified = FALSE
    /\ is_planned = FALSE
    /\ end_time = NoTime
    /\ fetch_ret = "unset"
    /\ save_exc = FALSE
    /\ event_id = "unset"
    /\ data = NoData
    /\ events = <<>>
    /\ db_state = "None"
    /\ sent = <<>>
    /\ readings = <<>>
    /\ calls = <<>>
    /\ cb_raised = FALSE

\* the seconds a request may take
Latencies == {d \in {0, FetchTimeout} : now + d <= boot + MaxTime}

(***************************************************************************)
(* PowerMonitorBot.run: the initial fetch, then the poll thread starts     *)
(***************************************************************************)
Run ==
    /\ pc = "start"
    /\ \E resp \in Responses, d \in Latencies :
          LET r == Dated(resp, now + d)
              f == fetch_schedule(data, r)
          IN
          /\ data' = f.data
          /\ fetch_ret' = f.ret
          /\ last_good' = IF r.ok THEN r.doc ELSE last_good
          /\ now' = now + d
    /\ pc' = "poll"
    /\ UNCHANGED <<last_status, last_change_time, current_status, events,
                   db_state, sent, readings, calls, cb_raised>>
    /\ LocalsUnchanged
    /\ UNCHANGED otherVars

(***************************************************************************)
(* TuyaMonitor.check_status, up to the callback invocation                 *)
(***************************************************************************)
CheckStatus ==
    /\ pc = "poll"
    /\ \E r \in {"True", "False", "None"} :
          /\ current_status' = r
          /\ readings' = IF r = "None" THEN readings ELSE Append(readings, r)
          /\ LET b == check_branch(r, last_status) IN
             \/ /\ b = "error"
                /\ pc' = "sleep"
                /\ UNCHANGED <<last_status, last_change_time, calls>>
                /\ LocalsUnchanged
             \/ /\ b = "init"
                /\ last_status' = r
                /\ last_change_time' = now
                /\ pc' = "sleep"
                /\ UNCHANGED calls
                /\ LocalsUnchanged
             \/ /\ b = "changed"
                /\ LET duration_seconds == now - last_change_time IN
                   /\ calls' = Append(calls, [has_power |-> r,
                                              duration_seconds |-> duration_seconds,
                                              at |-> now])
                   /\ cb_has_power' = r
                   /\ cb_duration' = duration_seconds
                /\ pc' = "cb_classify"
                /\ UNCHANGED <<last_status, last_change_time, classified,
                               is_planned, end_time, save_exc, event_id,
                               is_silent>>
             \/ /\ b = "same"
                /\ pc' = "sleep"
                /\ UNCHANGED <<last_status, last_change_time, calls>>
                /\ LocalsUnchanged
    /\ UNCHANGED <<now, fetch_ret, data, events, db_state, sent, cb_raised,
                   last_good>>
    /\ UNCHANGED otherVars

(***************************************************************************)
(* on_power_change: fetch the schedule and classify                        *)
(***************************************************************************)
CbClassify ==
    /\ pc = "cb_classify"
    /\ \E resp \in Responses, d \in Latencies :
          LET t == now + d
              r == Dated(resp, t)
              f == fetch_schedule(data, r)
              c == is_outage_planned(f.data, t)
              raises == c.raised \/ (cb_has_power # "True" /\ schedule_text_raises(f.data))
          IN
          /\ data' = f.data
          /\ fetch_ret' = f.ret
          /\ last_good' = IF r.ok THEN r.doc ELSE last_good
          /\ now' = t
          /\ IF raises
             THEN \* the exception leaves check_status; start_monitoring logs it
                  /\ cb_raised' = TRUE
                  /\ pc' = after_exception
                  /\ LocalsReset
             ELSE /\ classified' = TRUE
                  /\ is_planned' = c.is_planned
                  /\ end_time' = c.end_time
                  /\ pc' = on_power_change_next("cb_classify")
                  /\ UNCHANGED <<cb_raised, cb_has_power, cb_duration, save_exc,
                                 event_id, is_silent>>
    /\ UNCHANGED <<last_status, last_change_time, current_status, events,
                   db_state, sent, readings, calls>>
    /\ UNCHANGED otherVars

(***************************************************************************)
(* on_power_change: save_power_event, then update_current_state            *)
(***************************************************************************)
CbSave ==
    /\ pc = "cb_save"
    /\ \E save_ok \in BOOLEAN, upd_ok \in BOOLEAN :
          LET rec == [has_power |-> cb_has_power,
                      duration_seconds |-> cb_duration,
                      is_planned |-> stored_is_planned(cb_has_power, is_planned),
                      expected_end_time |-> end_time,
                      event_time |-> now]
              s == save_power_event(events, save_ok, rec)
          IN
          /\ events' = s.events
          /\ save_exc' = s.exc
          /\ event_id' = s.ret
          /\ db_state' = update_current_state(db_state, upd_ok, cb_has_power)
    /\ pc' = on_power_change_next("cb_save")
    /\ UNCHANGED <<now, last_status, last_change_time, current_status,
                   cb_has_power, cb_duration, classified, is_planned, end_time,
                   fetch_ret, data, sent, readings, calls, cb_raised,
                   last_good, is_silent>>
    /\ UNCHANGED otherVars

(***************************************************************************)
(* on_power_change: send the notification                                  *)
(***************************************************************************)
CbSend ==
    /\ pc = "cb_send"
    /\ LET silent == is_night_time(kyiv_time_of_day(now), night) IN
       /\ is_silent' = silent
       /\ \E send_ok \in BOOLEAN :
             sent' = IF send_ok
                     THEN Append(sent, Msg("transition", cb_has_power,
                                            is_planned, end_time, silent))
                     ELSE sent
    /\ pc' = on_power_change_next("cb_send")
    /\ UNCHANGED <<now, last_status, last_change_time, current_status,
                   fetch_ret, data, events, db_state, readings, calls, cb_raised,
                   last_good>>
    /\ UNCHANGED <<cb_has_power, cb_duration, classified, is_planned, end_time,
                   save_exc, event_id>>
    /\ UNCHANGED otherVars

(***************************************************************************)
(* check_status after the callback returned                                *)
(***************************************************************************)
CheckStatusUpdate ==
    /\ pc = "update"
    /\ last_status' = current_status
    /\ last_change_time' = now
    /\ pc' = "sleep"
    /\ LocalsReset
    /\ UNCHANGED <<now, current_status, fetch_ret, data, events, db_state,
                   sent, readings, calls, cb_raised, last_good>>
    /\ UNCHANGED otherVars

(***************************************************************************)
(* start_monitoring: time.sleep(interval)                                  *)
(***************************************************************************)
Sleep ==
    /\ pc = "sleep"
    /\ now + PollInterval <= boot + MaxTime
    /\ now' = now + PollInterval
    /\ pc' = "poll"
    /\ UNCHANGED <<last_status, last_change_time, current_status, fetch_ret,
                   data, events, db_state, sent, readings, calls, cb_raised,
                   last_good>>
    /\ LocalsUnchanged
    /\ UNCHANGED otherVars

Next ==
    \/ Run
    \/ CheckStatus
    \/ CbClassify
    \/ CbSave
    \/ CbSend
    \/ CheckStatusUpdate
    \/ Sleep

Spec == Init /\ [][Next]_vars

\* the poll thread is always scheduled again, and every call it makes
\* returns or times out
SpecLive == Init /\ [][Next]_vars /\ WF_vars(Next)

(***************************************************************************)
(* A command handler calling TuyaMonitor.get_status_info while the poll    *)
(* thread runs.  The two assignments that end check_status and the two     *)
(* reads of get_status_info are separate steps here, since the other       *)
(* thread can run between them.                                            *)
(***************************************************************************)
InitSnapshot == Init /\ boot = 0

\* self.last_status = current_status
UpdateStatus ==
    /\ pc = "update"
    /\ last_status' = current_status
    /\ pc' = "update_time"
    /\ UNCHANGED <<now, last_change_time, current_status, fetch_ret, data,
                   events, db_state, sent, readings, calls, cb_raised,
                   last_good>>
    /\ LocalsUnchanged
    /\ UNCHANGED otherVars

\* self.last_change_time = datetime.now()
UpdateTime ==
    /\ pc = "update_time"
    /\ last_change_time' = now
    /\ pc' = "sleep"
    /\ LocalsReset
    /\ UNCHANGED <<now, last_status, current_status, fetch_ret, data, events,
                   db_state, sent, readings, calls, cb_raised, last_good>>
    /\ UNCHANGED otherVars

SnapshotFrame ==
    UNCHANGED <<now, pc, last_status, last_change_time, current_status,
                cb_has_power, cb_duration, classified, is_planned, end_time,
                fetch_ret, save_exc, event_id, data, events, db_state, sent,
                readings, calls, cb_raised, boot, last_good, is_silent, night,
                stats, rows, text, upstream_failed, fetched, seen, observed,
                inflight, served>>

\* duration_seconds = self.get_status_duration()
SnapDuration ==
    /\ hpc = "idle"
    /\ pc # "start"
    /\ info' = [NoInfo EXCEPT !.duration_seconds = now - last_change_time,
                              !.since = last_change_time,
                              !.at = now]
    /\ hpc' = "status_info"
    /\ SnapshotFrame

\* 'has_power': self.last_status
SnapStatus ==
    /\ hpc = "status_info"
    /\ info' = [info EXCEPT !.has_power = last_status]
    /\ hpc' = "done"
    /\ SnapshotFrame

NextSnapshot ==
    \/ Run
    \/ CheckStatus
    \/ CbClassify
    \/ CbSave
    \/ CbSend
    \/ UpdateStatus
    \/ UpdateTime
    \/ Sleep
    \/ SnapDuration
    \/ SnapStatus

SpecSnapshot == InitSnapshot /\ [][NextSnapshot]_vars

(***************************************************************************)
(* Direct use of the classifier on a cached document, as in the module's   *)
(* own test (fetch, then is_outage_planned): the inputs are drawn in the   *)
(* initial state.                                                          *)
(***************************************************************************)
\* longest slot list of a drawn document
MaxSlots == 2

ClassifySlots ==
    {Slot(t, b[1], b[2]) : t \in {"Definite", "NotPlanned"},
                           b \in {<<600, 720>>, <<0, 1440>>, <<700, 800>>}}

ClassifySlotLists ==
    UNION {[1..n -> ClassifySlots] : n \in 0..MaxSlots}

ClassifyDocs == {Doc(sl) : sl \in ClassifySlotLists} \cup {NoData, NoGroupDoc}

ClassifyMinutes == {0, 599, 600, 630, 699, 700, 719, 720, 799, 800, 1439}

InitClassify ==
    /\ now \in {m * 60 + s : m \in ClassifyMinutes, s \in {0, 59}}
    /\ pc = "classify"
    /\ data \in ClassifyDocs
    /\ last_good = data
    /\ boot = 0
    /\ OtherInit
    /\ last_status = "None"
    /\ last_change_time = 0
    /\ current_status = "None"
    /\ cb_has_power = "None"
    /\ cb_duration = 0
    /\ classified = FALSE
    /\ is_planned = FALSE
    /\ end_time = NoTime
    /\ fetch_ret = "True"
    /\ save_exc = FALSE
    /\ event_id = "unset"
    /\ events = <<>>
    /\ db_state = "None"
    /\ sent = <<>>
    /\ readings = <<>>
    /\ calls = <<>>
    /\ cb_raised = FALSE

Classify ==
    /\ pc = "classify"
    /\ LET c == is_outage_planned(data, now) IN
       /\ classified' = TRUE
       /\ is_planned' = c.is_planned
       /\ end_time' = c.end_time
    /\ pc' = "classified"
    /\ UNCHANGED <<now, last_status, last_change_time, current_status,
                   cb_has_power, cb_duration, fetch_ret, save_exc, event_id,
                   data, events, db_state, sent, readings, calls, cb_raised,
                   last_good, is_silent>>
    /\ UNCHANGED otherVars

NextClassify == Classify

SpecClassify == InitClassify /\ [][NextClassify]_vars

(***************************************************************************)
(* The values of the poll thread's variables in a process that has not     *)
(* polled yet.                                                             *)
(***************************************************************************)
TrackerInit ==
    /\ last_status = "None"
    /\ last_change_time = boot
    /\ current_status = "None"
    /\ cb_has_power = "None"
    /\ cb_duration = 0
    /\ classified = FALSE
    /\ is_planned = FALSE
    /\ end_time = NoTime
    /\ save_exc = FALSE
    /\ event_id = "unset"
    /\ events = <<>>
    /\ db_state = "None"
    /\ sent = <<>>
    /\ readings = <<>>
    /\ calls = <<>>
    /\ cb_raised = FALSE

(***************************************************************************)
(* Direct use of is_night_time: the instant and the window are drawn in    *)
(* the initial state.                                                      *)
(***************************************************************************)
\* a window that does not wrap: 01:00 - 05:00
DayWindow == [start |-> 1 * 3600, end |-> 5 * 3600]

NightWindows == {NightWindow, DayWindow}

InitNight ==
    /\ boot = 0
    /\ now \in {m * 60 + sec : m \in 0..1439, sec \in {0, 59}}
    /\ pc = "night"
    /\ night \in NightWindows
    /\ is_silent = FALSE
    /\ data = NoData
    /\ last_good = NoData
    /\ fetch_ret = "unset"
    /\ stats = <<>>
    /\ rows = <<>>
    /\ text = NoText
    /\ upstream_failed = FALSE
    /\ fetched = <<>>
    /\ seen = NoData
    /\ observed = NoData
    /\ hpc = "idle"
    /\ info = NoInfo
    /\ inflight = NoneInFlight
    /\ served = <<>>
    /\ TrackerInit

NightCheck ==
    /\ pc = "night"
    /\ is_silent' = is_night_time(kyiv_time_of_day(now), night)
    /\ pc' = "night_done"
    /\ UNCHANGED <<now, last_status, last_change_time, current_status,
                   cb_has_power, cb_duration, classified, is_planned, end_time,
                   fetch_ret, save_exc, event_id, data, events, db_state,
                   sent, readings, calls, cb_raised, last_good>>
    /\ UNCHANGED otherVars

NextNight == NightCheck

SpecNight == InitNight /\ [][NextNight]_vars

(***************************************************************************)
(* YasnoParser.get_schedule_text("today")                                  *)
(***************************************************************************)
RECURSIVE DefiniteLines(_)
DefiniteLines(slots) ==
    IF slots = <<>> THEN <<>>
    ELSE LET slot == Head(slots) IN
         IF IsDefinite(slot)
         THEN <<<<minutes_to_time(slot.start), minutes_to_time(slot.end)>>>>
                 \o DefiniteLines(Tail(slots))
         ELSE DefiniteLines(Tail(slots))

get_schedule_text(d) ==
    LET schedule == get_today_schedule(d) IN
    IF ~schedule.found
    THEN [raised |-> FALSE, sched |-> "not_found", lines |-> <<>>]
    ELSE IF schedule_text_raises(d)
    THEN [raised |-> TRUE, sched |-> "none", lines |-> <<>>]
    ELSE IF DefiniteLines(schedule.slots) = <<>>
    THEN [raised |-> FALSE, sched |-> "no_outages", lines |-> <<>>]
    ELSE [raised |-> FALSE, sched |-> "slots", lines |-> DefiniteLines(schedule.slots)]

(***************************************************************************)
(* DatabaseManager.get_daily_statistics and the digests built from it      *)
(***************************************************************************)
get_daily_statistics(table, ok, days, today) ==
    IF ok
    THEN SelectSeq(table, LAMBDA r : r.stat_date >= today - days)
    ELSE <<>>

\* Python's sum()
RECURSIVE py_sum(_)
py_sum(xs) == IF xs = <<>> THEN 0 ELSE Head(xs) + py_sum(Tail(xs))

stats_totals_swapped(rs) ==
    [total_outages |-> py_sum([i \in 1..Len(rs) |-> rs[i].total_outages]),
     total_planned |-> py_sum([i \in 1..Len(rs) |-> rs[i].emergency_outages]),
     total_emergency |-> py_sum([i \in 1..Len(rs) |-> rs[i].planned_outages]),
     total_duration |-> py_sum([i \in 1..Len(rs) |-> rs[i].total_outage_duration_seconds])]

stats_totals(rs) ==
    [total_outages |-> py_sum([i \in 1..Len(rs) |-> rs[i].total_outages]),
     total_planned |-> py_sum([i \in 1..Len(rs) |-> rs[i].planned_outages]),
     total_emergency |-> py_sum([i \in 1..Len(rs) |-> rs[i].emergency_outages]),
     total_duration |-> py_sum([i \in 1..Len(rs) |-> rs[i].total_outage_duration_seconds])]

avg_duration_ceil(total_duration, total_outages) ==
    IF total_outages > 0
    THEN (total_duration + total_outages - 1) \div total_outages
    ELSE 0

avg_duration(total_duration, total_outages) ==
    IF total_outages > 0 THEN total_duration \div total_outages ELSE 0

\* Python's max(rs, key=total_outage_duration_seconds): the first maximal row
RECURSIVE py_max_from_last(_, _, _)
py_max_from_last(rs, best, i) ==
    IF i > Len(rs) THEN best
    ELSE IF rs[i].total_outage_duration_seconds >= rs[best].total_outage_duration_seconds
         THEN py_max_from_last(rs, i, i + 1)
         ELSE py_max_from_last(rs, best, i + 1)

RECURSIVE py_max_from(_, _, _)
py_max_from(rs, best, i) ==
    IF i > Len(rs) THEN best
    ELSE IF rs[i].total_outage_duration_seconds > rs[best].total_outage_duration_seconds
         THEN py_max_from(rs, i, i + 1)
         ELSE py_max_from(rs, best, i + 1)

worst_day(rs) == rs[py_max_from(rs, 1, 2)]

worst_line(rs) ==
    LET w == worst_day(rs) IN
    IF w.total_outages > 0
    THEN <<w.stat_date, w.total_outages, w.total_outage_duration_seconds>>
    ELSE <<>>

weekly_text(rs) ==
    IF rs = <<>>
    THEN [NoText EXCEPT !.kind = "weekly_nodata"]
    ELSE LET t == stats_totals(rs) IN
         [NoText EXCEPT !.kind = "weekly",
                        !.total_outages = t.total_outages,
                        !.total_planned = t.total_planned,
                        !.total_emergency = t.total_emergency,
                        !.total_duration = t.total_duration,
                        !.avg_duration = avg_duration(t.total_duration, t.total_outages),
                        !.period = <<rs[Len(rs)].stat_date, rs[1].stat_date>>,
                        !.worst = worst_line(rs)]

monthly_text(rs) ==
    IF rs = <<>>
    THEN [NoText EXCEPT !.kind = "monthly_nodata"]
    ELSE LET t == stats_totals(rs) IN
         [NoText EXCEPT !.kind = "monthly",
                        !.total_outages = t.total_outages,
                        !.total_planned = t.total_planned,
                        !.total_emergency = t.total_emergency,
                        !.total_duration = t.total_duration,
                        !.avg_duration = avg_duration(t.total_duration, t.total_outages),
                        !.days_with_outages =
                            Cardinality({i \in 1..Len(rs) : rs[i].total_outages > 0}),
                        !.period = <<rs[Len(rs)].stat_date>>,
                        !.worst = worst_line(rs)]

daily_text(ret, d) ==
    IF ret # "True"
    THEN [NoText EXCEPT !.kind = "daily_failed"]
    ELSE LET g == get_schedule_text(d) IN
         [NoText EXCEPT !.kind = "daily", !.sched = g.sched, !.lines = g.lines]

(***************************************************************************)
(* The digest jobs.  The statistics table and the cached document are      *)
(* drawn in the initial state; a job runs once.                            *)
(***************************************************************************)
\* most rows the statistics table holds
MaxRows == 3

\* how many days before today the i-th most recent row lies
AgeOf(i) == CASE i = 1 -> 0 [] i = 2 -> 3 [] i = 3 -> 8 [] OTHER -> 28 + i

StatRow(date, k) ==
    [stat_date |-> date,
     total_outages |-> k[1],
     planned_outages |-> k[2],
     emergency_outages |-> k[3],
     total_outage_duration_seconds |-> k[4],
     longest_outage_seconds |-> k[5]]

\* outages, planned, emergency, total seconds, longest
RowKinds == {<<0, 0, 0, 0, 0>>, <<1, 1, 0, 5, 5>>, <<2, 1, 1, 7, 4>>, <<1, 0, 1, 7, 7>>}

StatTables(today) ==
    UNION {{[i \in 1..n |-> StatRow(today - AgeOf(i), k[i])] : k \in [1..n -> RowKinds]}
              : n \in 0..MaxRows}

\* CronTrigger(hour=6, minute=15): the second of the day the daily job fires
DailyTrigger_early == 5 * 3600 + 15 * 60

DailyTrigger == 6 * 3600 + 15 * 60

\* CronTrigger(..., hour=9, minute=0): the weekly and the monthly job; the
\* day is taken to be one on which both fire
StatsTrigger == 9 * 3600

InitDigest ==
    /\ boot = 0
    /\ now \in {100 * 86400 + DailyTrigger, 100 * 86400 + StatsTrigger}
    /\ pc = "digest"
    /\ data \in {NoData, DocOther}
    /\ last_good = data
    /\ fetch_ret = "unset"
    /\ night = NightWindow
    /\ is_silent = FALSE
    /\ stats \in StatTables(Day(now))
    /\ rows = <<>>
    /\ text = NoText
    /\ upstream_failed = FALSE
    /\ fetched = <<>>
    /\ seen = NoData
    /\ observed = NoData
    /\ hpc = "idle"
    /\ info = NoInfo
    /\ inflight = NoneInFlight
    /\ served = <<>>
    /\ TrackerInit

DigestFrame ==
    UNCHANGED <<now, last_status, last_change_time, current_status,
                cb_has_power, cb_duration, classified, is_planned, end_time,
                save_exc, event_id, events, db_state, readings, calls,
                cb_raised, is_silent, boot, night, stats, fetched, seen,
                observed, hpc, info, inflight, served>>

\* send_message(text, show_buttons=True, silent=False)
Dispatch(t, ok) ==
    IF ok THEN Append(sent, Msg(t.kind, "None", FALSE, NoTime, FALSE)) ELSE sent

SendDailySchedule ==
    /\ pc = "digest"
    /\ kyiv_time_of_day(now) = DailyTrigger
    /\ \E resp \in Responses, send_ok \in BOOLEAN :
          LET r == Dated(resp, now)
              f == fetch_schedule(data, r)
          IN
          /\ data' = f.data
          /\ fetch_ret' = f.ret
          /\ last_good' = IF r.ok THEN r.doc ELSE last_good
          /\ upstream_failed' = ~r.ok
          /\ IF f.ret = "True" /\ get_schedule_text(f.data).raised
             THEN \* the KeyError ends the job before send_message
                  /\ text' = NoText
                  /\ sent' = sent
             ELSE /\ text' = daily_text(f.ret, f.data)
                  /\ sent' = Dispatch(daily_text(f.ret, f.data), send_ok)
    /\ pc' = "digest_done"
    /\ UNCHANGED rows
    /\ DigestFrame

SendWeeklyStats ==
    /\ pc = "digest"
    /\ kyiv_time_of_day(now) = StatsTrigger
    /\ \E ok \in BOOLEAN, send_ok \in BOOLEAN :
          LET week_stats == get_daily_statistics(stats, ok, 7, Day(now)) IN
          /\ rows' = week_stats
          /\ upstream_failed' = ~ok
          /\ text' = weekly_text(week_stats)
          /\ sent' = Dispatch(weekly_text(week_stats), send_ok)
    /\ pc' = "digest_done"
    /\ UNCHANGED <<data, fetch_ret, last_good>>
    /\ DigestFrame

SendMonthlyStats ==
    /\ pc = "digest"
    /\ kyiv_time_of_day(now) = StatsTrigger
    /\ \E ok \in BOOLEAN, send_ok \in BOOLEAN :
          LET month_stats == get_daily_statistics(stats, ok, 30, Day(now)) IN
          /\ rows' = month_stats
          /\ upstream_failed' = ~ok
          /\ text' = monthly_text(month_stats)
          /\ sent' = Dispatch(monthly_text(month_stats), send_ok)
    /\ pc' = "digest_done"
    /\ UNCHANGED <<data, fetch_ret, last_good>>
    /\ DigestFrame

NextDigest ==
    \/ SendDailySchedule
    \/ SendWeeklyStats
    \/ SendMonthlyStats

SpecDigest == InitDigest /\ [][NextDigest]_vars

(***************************************************************************)
(* Everything that sends a notification: the three digest jobs at their    *)
(* trigger times, and on_power_change about to send at any minute of the   *)
(* day.                                                                    *)
(***************************************************************************)
InitSending ==
    /\ boot = 0
    /\ now \in {m * 60 + sec : m \in 0..1439, sec \in {0, 59}}
    /\ pc = "cb_send"
    /\ cb_has_power \in {"True", "False"}
    /\ last_status = IF cb_has_power = "True" THEN "False" ELSE "True"
    /\ current_status = cb_has_power
    /\ last_change_time = boot
    /\ cb_duration = now - boot
    /\ readings = <<last_status, cb_has_power>>
    /\ calls = <<[has_power |-> cb_has_power, duration_seconds |-> cb_duration,
                  at |-> now]>>
    /\ classified = TRUE
    /\ is_planned = FALSE
    /\ end_time = NoTime
    /\ save_exc = FALSE
    /\ event_id = "id"
    /\ events = <<[has_power |-> cb_has_power, duration_seconds |-> cb_duration,
                   is_planned |-> FALSE, expected_end_time |-> NoTime,
                   event_time |-> now]>>
    /\ db_state = cb_has_power
    /\ sent = <<>>
    /\ cb_raised = FALSE
    /\ data = NoData
    /\ last_good = NoData
    /\ fetch_ret = "False"
    /\ OtherInit

InitNotify == InitDigest \/ InitSending

NextNotify ==
    \/ SendDailySchedule
    \/ SendWeeklyStats
    \/ SendMonthlyStats
    \/ CbSend

SpecNotify == InitNotify /\ [][NextNotify]_vars

(***************************************************************************)
(* The command handlers /status, /schedule, /stats and /history.  The      *)
(* tracker's state, the cached document, the event log and the statistics  *)
(* table are drawn in the initial state; one command is answered.          *)
(***************************************************************************)
get_today_statistics(table, ok, today) ==
    IF ok THEN SelectSeq(table, LAMBDA r : r.stat_date = today) ELSE <<>>

\* ORDER BY event_time DESC LIMIT limit
RECURSIVE NewestFirst(_, _)
NewestFirst(log, limit) ==
    IF log = <<>> \/ limit = 0 THEN <<>>
    ELSE <<log[Len(log)]>> \o NewestFirst(SubSeq(log, 1, Len(log) - 1), limit - 1)

get_recent_events(log, ok, limit) == IF ok THEN NewestFirst(log, limit) ELSE <<>>

status_text(has_power, c) ==
    IF has_power = "None" THEN [NoText EXCEPT !.kind = "status_failed"]
    ELSE IF has_power = "True" THEN [NoText EXCEPT !.kind = "status_on"]
    ELSE IF c.is_planned
    THEN [NoText EXCEPT !.kind = "status_off_planned",
                        !.lines = IF c.end_time # NoTime THEN <<c.end_time>> ELSE <<>>]
    ELSE [NoText EXCEPT !.kind = "status_off_emergency"]

schedule_text(ret, d) ==
    IF ret # "True"
    THEN [NoText EXCEPT !.kind = "schedule_failed"]
    ELSE LET g == get_schedule_text(d) IN
         [NoText EXCEPT !.kind = "schedule", !.sched = g.sched, !.lines = g.lines]

stats_text(today_stats, week_stats) ==
    LET shown == today_stats # <<>> /\ today_stats[1].total_outages > 0
        t == stats_totals(week_stats)
    IN
    [NoText EXCEPT !.kind = "stats",
                   !.sched = IF shown THEN "today_row" ELSE "today_none",
                   !.lines = IF shown THEN today_stats ELSE <<>>,
                   !.period = IF week_stats # <<>> THEN <<7>> ELSE <<>>,
                   !.total_outages = t.total_outages,
                   !.total_planned = t.total_planned,
                   !.total_emergency = t.total_emergency]

history_text(evs) ==
    IF evs = <<>>
    THEN [NoText EXCEPT !.kind = "history_empty"]
    ELSE [NoText EXCEPT !.kind = "history", !.lines = evs]

\* an outage stored earlier
PastEvent ==
    [has_power |-> "False", duration_seconds |-> 30, is_planned |-> FALSE,
     expected_end_time |-> NoTime, event_time |-> 0]

InitQuery ==
    /\ boot = 0
    /\ now = 100 * 86400 + 60
    /\ pc = "query"
    /\ last_status \in {"None", "True", "False"}
    /\ last_change_time = boot
    /\ data \in {NoData, DocPlanned, DocOther}
    /\ last_good = data
    /\ fetch_ret = "unset"
    /\ events \in {<<>>, <<PastEvent>>}
    /\ stats \in StatTables(Day(now))
    /\ rows = <<>>
    /\ text = NoText
    /\ upstream_failed = FALSE
    /\ fetched = <<>>
    /\ seen = NoData
    /\ observed = NoData
    /\ hpc = "idle"
    /\ info = NoInfo
    /\ inflight = NoneInFlight
    /\ served = <<>>
    /\ night = NightWindow
    /\ is_silent = FALSE
    /\ current_status = "None"
    /\ cb_has_power = "None"
    /\ cb_duration = 0
    /\ classified = FALSE
    /\ is_planned = FALSE
    /\ end_time = NoTime
    /\ save_exc = FALSE
    /\ event_id = "unset"
    /\ db_state = last_status
    /\ sent = <<>>
    /\ readings = <<>>
    /\ calls = <<>>
    /\ cb_raised = FALSE

QueryFrame ==
    UNCHANGED <<now, last_status, last_change_time, current_status,
                cb_has_power, cb_duration, save_exc, event_id, events,
                db_state, readings, calls, cb_raised, is_silent, boot, night,
                stats, fetched, seen, observed, hpc, info, inflight, served>>

\* reply_text / edit_message_text
Reply(t, ok) ==
    IF ok THEN Append(sent, Msg(t.kind, "None", FALSE, NoTime, FALSE)) ELSE sent

cmd_status ==
    /\ pc = "query"
    /\ IF last_status = "False"
       THEN \E resp \in Responses, reply_ok \in BOOLEAN :
               LET r == Dated(resp, now)
                   f == fetch_schedule(data, r)
                   c == is_outage_planned(f.data, now)
               IN
               /\ data' = f.data
               /\ fetch_ret' = f.ret
               /\ last_good' = IF r.ok THEN r.doc ELSE last_good
               /\ upstream_failed' = ~r.ok
               /\ classified' = TRUE
               /\ IF c.raised
                  THEN \* the KeyError ends the handler before the reply
                       /\ UNCHANGED <<is_planned, end_time, sent>>
                       /\ text' = NoText
                  ELSE /\ is_planned' = c.is_planned
                       /\ end_time' = c.end_time
                       /\ text' = status_text(last_status, c)
                       /\ sent' = Reply(status_text(last_status, c), reply_ok)
       ELSE \E reply_ok \in BOOLEAN :
               LET c == [raised |-> FALSE, is_planned |-> FALSE, end_time |-> NoTime] IN
               /\ text' = status_text(last_status, c)
               /\ sent' = Reply(status_text(last_status, c), reply_ok)
               /\ UNCHANGED <<data, fetch_ret, last_good, upstream_failed,
                              classified, is_planned, end_time>>
    /\ pc' = "query_done"
    /\ UNCHANGED rows
    /\ QueryFrame

cmd_schedule ==
    /\ pc = "query"
    /\ \E resp \in Responses, reply_ok \in BOOLEAN :
          LET r == Dated(resp, now)
              f == fetch_schedule(data, r)
          IN
          /\ data' = f.data
          /\ fetch_ret' = f.ret
          /\ last_good' = IF r.ok THEN r.doc ELSE last_good
          /\ upstream_failed' = ~r.ok
          /\ IF f.ret = "True" /\ get_schedule_text(f.data).raised
             THEN /\ text' = NoText
                  /\ sent' = sent
             ELSE /\ text' = schedule_text(f.ret, f.data)
                  /\ sent' = Reply(schedule_text(f.ret, f.data), reply_ok)
    /\ pc' = "query_done"
    /\ UNCHANGED <<rows, classified, is_planned, end_time>>
    /\ QueryFrame

cmd_stats ==
    /\ pc = "query"
    /\ \E today_ok \in BOOLEAN, week_ok \in BOOLEAN, reply_ok \in BOOLEAN :
          LET today_stats == get_today_statistics(stats, today_ok, Day(now))
              week_stats == get_daily_statistics(stats, week_ok, 7, Day(now))
          IN
          /\ rows' = week_stats
          /\ upstream_failed' = (~today_ok \/ ~week_ok)
          /\ text' = stats_text(today_stats, week_stats)
          /\ sent' = Reply(stats_text(today_stats, week_stats), reply_ok)
    /\ pc' = "query_done"
    /\ UNCHANGED <<data, fetch_ret, last_good, classified, is_planned, end_time>>
    /\ QueryFrame

cmd_history ==
    /\ pc = "query"
    /\ \E ok \in BOOLEAN, reply_ok \in BOOLEAN :
          LET evs == get_recent_events(events, ok, 10) IN
          /\ rows' = evs
          /\ upstream_failed' = ~ok
          /\ text' = history_text(evs)
          /\ sent' = Reply(history_text(evs), reply_ok)
    /\ pc' = "query_done"
    /\ UNCHANGED <<data, fetch_ret, last_good, classified, is_planned, end_time>>
    /\ QueryFrame

NextQuery ==
    \/ cmd_status
    \/ cmd_schedule
    \/ cmd_stats
    \/ cmd_history

SpecQuery == InitQuery /\ [][NextQuery]_vars

(***************************************************************************)
(* A reader of YasnoParser.data (is_outage_planned, through                *)
(* get_today_schedule) while other threads call fetch_schedule.  The       *)
(* reader evaluates self.data twice: `not self.data`, then                 *)
(* `self.data.get(self.group)`; a refresh may fall before, between and     *)
(* after the two.                                                          *)
(***************************************************************************)
\* most assignments to YasnoParser.data during one read
MaxRefreshes == 2

reader_view_mixed(first, second) ==
    IF ~first.loaded THEN NoData
    ELSE IF first = second THEN second
    ELSE [second EXCEPT !.slots = SubSeq(first.slots, 1, 1) \o second.slots]

\* the document get_today_schedule takes group_data from: none when the
\* first evaluation of self.data was falsy, else the second evaluation
reader_view(first, second) ==
    IF ~first.loaded THEN NoData ELSE second

InitCache ==
    /\ boot = 0
    /\ now = 60
    /\ pc = "read1"
    /\ data \in {NoData} \cup Docs
    /\ last_good = data
    /\ fetched = IF data = NoData THEN <<>> ELSE <<data>>
    /\ seen = NoData
    /\ observed = NoData
    /\ hpc = "idle"
    /\ info = NoInfo
    /\ inflight = NoneInFlight
    /\ served = <<>>
    /\ fetch_ret = "unset"
    /\ night = NightWindow
    /\ is_silent = FALSE
    /\ stats = <<>>
    /\ rows = <<>>
    /\ text = NoText
    /\ upstream_failed = FALSE
    /\ TrackerInit

CacheFrame ==
    UNCHANGED <<now, last_status, last_change_time, current_status,
                cb_has_power, cb_duration, save_exc, event_id, events,
                db_state, sent, readings, calls, is_silent, boot, night,
                stats, rows, text, upstream_failed, hpc, info, inflight,
                served>>

\* `if not self.data`
ReadTruthiness ==
    /\ pc = "read1"
    /\ seen' = data
    /\ pc' = "read2"
    /\ UNCHANGED <<data, fetch_ret, last_good, fetched, observed, classified,
                   is_planned, end_time, cb_raised>>
    /\ CacheFrame

\* `self.data.get(self.group)` and the scan of the slots obtained
ReadGroup ==
    /\ pc = "read2"
    /\ LET d == reader_view(seen, data)
           c == is_outage_planned(d, now)
       IN
       /\ observed' = d
       /\ classified' = TRUE
       /\ cb_raised' = c.raised
       /\ is_planned' = c.is_planned
       /\ end_time' = c.end_time
    /\ pc' = "read_done"
    /\ UNCHANGED <<data, fetch_ret, last_good, fetched, seen>>
    /\ CacheFrame

\* fetch_schedule called by the poll thread, a digest job or a command
Refresh ==
    /\ pc \in {"read1", "read2", "read_done"}
    /\ \E resp \in Responses :
          LET r == Dated(resp, now)
              f == fetch_schedule(data, r)
          IN
          /\ r.ok => Len(fetched) < MaxRefreshes
          /\ data' = f.data
          /\ fetch_ret' = f.ret
          /\ last_good' = IF r.ok THEN r.doc ELSE last_good
          /\ fetched' = IF r.ok THEN Append(fetched, r.doc) ELSE fetched
    /\ UNCHANGED <<pc, seen, observed, classified, is_planned, end_time,
                   cb_raised>>
    /\ CacheFrame

NextCache ==
    \/ ReadTruthiness
    \/ ReadGroup
    \/ Refresh

SpecCache == InitCache /\ [][NextCache]_vars

(***************************************************************************)
(* fetch_schedule called by several threads at once.  requests.get returns *)
(* the response the provider served; the assignment to self.data is a      *)
(* later step of the same call, and the calls are not ordered against each *)
(* other.                                                                  *)
(***************************************************************************)
\* most responses the provider serves in one run
MaxRequests == 3

InitRace ==
    /\ boot = 0
    /\ now = 60
    /\ pc = "racing"
    /\ data = NoData
    /\ last_good = NoData
    /\ fetch_ret = "unset"
    /\ OtherInit
    /\ TrackerInit

RaceFrame ==
    UNCHANGED <<now, pc, last_status, last_change_time, current_status,
                cb_has_power, cb_duration, classified, is_planned, end_time,
                save_exc, event_id, events, db_state, sent, readings, calls,
                cb_raised, is_silent, boot, night, stats, rows, text,
                upstream_failed, seen, observed, hpc, info>>

\* response = requests.get(...); response.raise_for_status()
Request(c) ==
    /\ pc = "racing"
    /\ ~inflight[c].busy
    /\ Len(served) < MaxRequests
    /\ \E resp \in Responses :
          LET r == Dated(resp, now) IN
          /\ inflight' = [inflight EXCEPT ![c] = [busy |-> TRUE, resp |-> r]]
          /\ served' = IF r.ok THEN Append(served, r.doc) ELSE served
    /\ UNCHANGED <<data, fetch_ret, last_good, fetched>>
    /\ RaceFrame

\* self.data = response.json(); return True / except: return False
Install(c) ==
    /\ pc = "racing"
    /\ inflight[c].busy
    /\ LET r == inflight[c].resp
           f == fetch_schedule(data, r)
       IN
       /\ data' = f.data
       /\ fetch_ret' = f.ret
       /\ last_good' = IF r.ok THEN r.doc ELSE last_good
       /\ fetched' = IF r.ok THEN Append(fetched, r.doc) ELSE fetched
    /\ inflight' = [inflight EXCEPT ![c] = NoneInFlight[c]]
    /\ UNCHANGED served
    /\ RaceFrame

NextRace ==
    \/ \E c \in Callers : Request(c)
    \/ \E c \in Callers : Install(c)

SpecRace == InitRace /\ [][NextRace]_vars

(***************************************************************************)
(* Properties                                                              *)
(***************************************************************************)
\* the positions of a reading sequence that differ from the reading before
ChangePositions(rs) == {i \in 2..Len(rs) : rs[i] # rs[i - 1]}

RECURSIVE Transitions(_)
Transitions(rs) ==
    IF Len(rs) < 2 THEN <<>>
    ELSE LET front == SubSeq(rs, 1, Len(rs) - 1) IN
         IF rs[Len(rs)] # rs[Len(rs) - 1]
         THEN Append(Transitions(front), rs[Len(rs)])
         ELSE Transitions(front)

StoredStates == [i \in 1..Len(events) |-> events[i].has_power]

Handling == pc \in {"cb_classify", "cb_save", "cb_send", "update"}

\* C1: the number of callback invocations equals the number of positions at
\* which a successful reading differs from the preceding successful reading;
\* the first reading and failed polls emit nothing.
C1_TransitionCount == Len(calls) = Cardinality(ChangePositions(readings))

\* C2: when no transition is being handled, the event log holds exactly one
\* event per confirmed transition, in transition order (stated for the runs
\* in which the callback has never raised).
C2_ExactlyOneEventPerTransition ==
    (~Handling /\ ~cb_raised) => StoredStates = Transitions(readings)

\* C3: the duration of event n is the clock difference between the instants
\* at which event n-1 and event n were detected, however long the handling
\* of event n-1 took (stated for the runs in which the callback has never
\* raised).
C3_DurationIsDetectionGap ==
    ~cb_raised =>
        \A n \in 2..Len(calls) :
            calls[n].duration_seconds = calls[n].at - calls[n - 1].at

\* the Definite slots of the cached today document that contain minute m
MatchingSlots(d, m) ==
    {i \in 1..Len(d.slots) :
        /\ d.loaded /\ d.has_group
        /\ d.slots[i].type = "Definite"
        /\ d.slots[i].start <= m /\ m < d.slots[i].end}

FirstMatch(d, m) ==
    CHOOSE i \in MatchingSlots(d, m) : \A j \in MatchingSlots(d, m) : i <= j

\* C4: classification at minute m is planned iff some Definite slot of the
\* cached today document has start <= m < end; slots of other kinds never
\* count; on a match the expected end is the HH:MM text of the matching
\* slot's end (slot 600..720 gives "12:00"), otherwise there is none.
C4_PlannedIffDefiniteSlot ==
    pc = "classified" =>
        LET m == now \div 60
            ms == MatchingSlots(data, m)
        IN
        /\ is_planned <=> ms # {}
        /\ ms = {} => end_time = NoTime
        /\ ms # {} =>
              /\ end_time = minutes_to_time(data.slots[FirstMatch(data, m)].end)
              /\ data.slots[FirstMatch(data, m)].end = 720
                    => end_time = <<"1", "2", ":", "0", "0">>
              /\ data.slots[FirstMatch(data, m)].end = 1440
                    => end_time = <<"2", "4", ":", "0", "0">>

C4_Witness ==
    /\ pc = "classified"
    /\ now \div 60 = 630
    /\ data.slots = <<Slot("NotPlanned", 0, 1440), Slot("Definite", 600, 720)>>
    /\ is_planned
    /\ end_time = <<"1", "2", ":", "0", "0">>

\* C5: the tracker's state advances past a transition only if the event of
\* that transition was persisted: a failed save_power_event leaves
\* last_status and last_change_time as they were.
C5_NoAdvanceOnFailedAppend ==
    [][(last_status # "None"
          /\ (last_status' # last_status \/ last_change_time' # last_change_time))
       => ~save_exc]_vars

\* C6: whenever the database fails inside save_power_event, what the
\* caller gets back is an explicit error, not an empty id.
C6_StoreErrorSurfaced == save_exc => event_id = "StoreError"

\* a step of check_status that polled the device and got no reading
FailedPollStep == pc = "poll" /\ pc' # "poll" /\ current_status' = "None"

\* C7: a failed poll leaves last_status and last_change_time unchanged and
\* invokes no callback, also before the first successful poll.
C7_FailedPollIsNoOp ==
    [][FailedPollStep =>
          /\ last_status' = last_status
          /\ last_change_time' = last_change_time
          /\ calls' = calls
          /\ pc' = "sleep"
          /\ events' = events
          /\ sent' = sent]_vars

C7_Witness ==
    /\ pc = "sleep"
    /\ current_status = "None"
    /\ last_status = "True"
    /\ Len(calls) = 1

\* a step that called fetch_schedule
FetchStep == pc \in {"start", "cb_classify"} /\ pc' # pc

\* C8: a fetch that returns failure leaves the cached document as it was;
\* the cached document changes only in a fetch that returns success.
C8_FailedFetchKeepsCache ==
    [][/\ (FetchStep /\ fetch_ret' = "False") => data' = data
       /\ data' # data => (FetchStep /\ fetch_ret' = "True")]_vars

C8_Witness ==
    /\ pc = "cb_save"
    /\ fetch_ret = "False"
    /\ data = DocPlanned

\* C9: every stored power-restored event has is_planned = FALSE, whatever
\* the schedule says.
C9_RestoredNeverPlanned ==
    \A i \in 1..Len(events) :
        events[i].has_power = "True" => ~events[i].is_planned

C9_Witness ==
    \E i \in 1..Len(events) :
        /\ events[i].has_power = "True"
        /\ events[i].expected_end_time # NoTime
        /\ ~events[i].is_planned

\* C10: the classifier is invoked in the handling of a transition only when
\* the new state is power lost.
C10_ClassifyOnlyOnPowerLost ==
    (Handling /\ classified) => cb_has_power = "False"

\* C11: a classification matches slots only of a cached document whose
\* date is the calendar date of the classified instant; a document kept
\* across midnight is never used as today's schedule.
C11_OnlyTodaysDocument ==
    (Handling /\ classified /\ is_planned) => data.date = Day(now)

\* C12: the cached document is always the document of the most recent
\* successful fetch, a classification is the classification of that
\* document, and the schedule counts as absent because of failed fetches
\* only while no fetch has succeeded yet.
C12_UsesLatestFetchedDocument ==
    /\ data = last_good
    /\ (Handling /\ classified) =>
          LET c == is_outage_planned(last_good, now) IN
          /\ is_planned = c.is_planned
          /\ end_time = c.end_time

C12_Witness ==
    /\ pc = "cb_save"
    /\ classified
    /\ fetch_ret = "False"
    /\ last_good = DocPlanned
    /\ is_planned
    /\ end_time = <<"0", "0", ":", "0", "2">>

\* C13: with the window 23:00-06:00 the gate answers inside iff the minute
\* of the day is >= 23:00 or < 06:00; with a window that does not wrap it
\* answers inside iff start <= minute < end.
C13_QuietHoursGate ==
    pc = "night_done" =>
        LET m == (now % 86400) \div 60
            ws == night.start \div 60
            we == night.end \div 60
        IN
        /\ night = NightWindow => (is_silent <=> (m >= 1380 \/ m < 360))
        /\ ws < we => (is_silent <=> (ws <= m /\ m < we))
        /\ (night = NightWindow /\ m \in {150, 1380, 359}) => is_silent
        /\ (night = NightWindow /\ m \in {720, 360}) => ~is_silent

C13_Witness ==
    /\ pc = "night_done"
    /\ night = NightWindow
    /\ now = 5 * 3600 + 59 * 60 + 59
    /\ is_silent

\* C14: when the notification of a transition is dispatched,
\* save_power_event and update_current_state have already returned, and
\* the dispatch, failed or not, changes neither the event log nor the
\* current-state row.
C14_PersistBeforeNotify ==
    [][(pc = "cb_send" /\ pc' # "cb_send") =>
          /\ event_id # "unset"
          /\ events' = events
          /\ db_state' = db_state]_vars

C14_Witness ==
    /\ pc = "update"
    /\ sent = <<>>
    /\ Len(events) = 1
    /\ events[1].has_power = cb_has_power
    /\ db_state = cb_has_power

\* C15: whenever no transition is being handled and the tracker knows a
\* state, the current-state row holds the tracker's last_status (stated for
\* the states after a handled transition, in runs in which the callback
\* has never raised).
C15_StoreMirrorsTracker ==
    (~Handling /\ pc # "start" /\ last_status # "None" /\ calls # <<>> /\ ~cb_raised)
        => db_state = last_status

\* C16: when a digest job has run and its schedule fetch or statistics
\* read failed, the text it built is an explicit failure message, neither
\* a normal digest nor the "no data" message.
C16_DigestFailureIsExplicit ==
    (pc = "digest_done" /\ upstream_failed)
        => text.kind \in {"daily_failed", "weekly_failed", "monthly_failed"}

\* the sum of the first n entries of a column, counted from the index
RECURSIVE ColumnSum(_, _)
ColumnSum(f, n) == IF n = 0 THEN 0 ELSE f[n] + ColumnSum(f, n - 1)

StatsJobRan == pc = "digest_done" /\ fetch_ret = "unset"

\* C18: a weekly or monthly digest over an empty statistics sequence is
\* the "no data" message and never a report; over a non-empty sequence it
\* is a report whose totals are the sums of the rows' total_outages,
\* planned_outages, emergency_outages and total_outage_duration_seconds.
C18_NoDataOrSums ==
    StatsJobRan =>
        /\ rows = <<>> <=> text.kind \in {"weekly_nodata", "monthly_nodata"}
        /\ rows # <<>> <=> text.kind \in {"weekly", "monthly"}
        /\ rows # <<>> =>
              LET n == Len(rows) IN
              /\ text.total_outages =
                    ColumnSum([i \in 1..n |-> rows[i].total_outages], n)
              /\ text.total_planned =
                    ColumnSum([i \in 1..n |-> rows[i].planned_outages], n)
              /\ text.total_emergency =
                    ColumnSum([i \in 1..n |-> rows[i].emergency_outages], n)
              /\ text.total_duration =
                    ColumnSum([i \in 1..n |-> rows[i].total_outage_duration_seconds], n)

C18_Witness ==
    /\ StatsJobRan
    /\ text.kind = "weekly"
    /\ Len(rows) = 2
    /\ text.total_outages = 3
    /\ text.total_planned = 1
    /\ text.total_emergency = 2
    /\ text.total_duration = 14

\* C19: the average duration of a weekly or monthly report is the
\* truncated quotient of its total duration by its total outages when
\* there are outages, and 0 when there are none.
C19_AverageDuration ==
    (StatsJobRan /\ text.kind \in {"weekly", "monthly"}) =>
        LET n == text.total_outages
            d == text.total_duration
            a == text.avg_duration
        IN
        /\ n > 0 => a * n <= d /\ d < (a + 1) * n
        /\ n = 0 => a = 0

C19_Witness ==
    /\ StatsJobRan
    /\ text.kind = "monthly"
    /\ text.total_outages = 2
    /\ text.total_duration = 7
    /\ text.avg_duration = 3

C19_WitnessZero ==
    /\ StatsJobRan
    /\ text.kind = "weekly"
    /\ text.total_outages = 0
    /\ text.avg_duration = 0

\* C17: when a command has been answered and one of its upstream calls
\* (schedule fetch, statistics read, history read) failed, the answer is
\* an explicit failure message.
C17_QueryFailureIsExplicit ==
    (pc = "query_done" /\ upstream_failed)
        => text.kind \in {"status_failed", "schedule_failed", "stats_failed",
                          "history_failed"}

\* C20: the cache holds nothing or a document one fetch returned, and a
\* read that overlaps refreshes takes its result from nothing (only when
\* the cache was empty at its first evaluation) or from one document a
\* single fetch returned, whose classification it reports.
C20_ReaderSeesOneDocument ==
    /\ data = NoData \/ \E i \in 1..Len(fetched) : data = fetched[i]
    /\ pc = "read_done" =>
          /\ \/ observed = NoData /\ seen = NoData
             \/ \E i \in 1..Len(fetched) : observed = fetched[i]
          /\ LET c == is_outage_planned(observed, now) IN
             /\ cb_raised = c.raised
             /\ is_planned = c.is_planned
             /\ end_time = c.end_time

C20_Witness ==
    /\ pc = "read_done"
    /\ Len(fetched) = 2
    /\ seen = DocOther
    /\ observed = DocPlanned
    /\ is_planned
    /\ end_time = <<"0", "0", ":", "0", "2">>

\* C21: whatever has failed before, the poll loop reaches its next poll
\* whenever the clock leaves room for the pending request and the sleep,
\* and a poll whose successful reading differs from last_status invokes
\* the transition callback in that very poll.
C21_LoopSurvivesFailures ==
    /\ [](((pc # "poll") /\ (now + FetchTimeout + PollInterval <= boot + MaxTime))
             => <>(pc = "poll"))
    /\ [][(pc = "poll" /\ last_status # "None"
              /\ current_status' \notin {"None", last_status})
             => (pc' = "cb_classify" /\ Len(calls') = Len(calls) + 1)]_vars

C21_Witness ==
    /\ cb_raised
    /\ pc = "cb_classify"
    /\ Len(calls) = 2
    /\ Len(readings) = 3

\* the step that ends the handling of a transition by setting
\* last_change_time
ConfirmedTransitionStep ==
    /\ pc = "update_time"
    /\ calls # <<>>
    /\ calls[Len(calls)].has_power = last_status

\* the first successful poll
FirstReadingStep ==
    /\ pc = "poll"
    /\ last_status = "None"
    /\ current_status' # "None"

\* C22 as stated: last_change_time never decreases, and a step changes
\* it only if it confirms a transition.
C22_SinceOnlyOnTransition ==
    [][/\ last_change_time' >= last_change_time
       /\ last_change_time' # last_change_time => ConfirmedTransitionStep]_vars

\* C22 amended: last_change_time never decreases, and a step changes it
\* only if it confirms a transition or is the first successful poll;
\* same-value polls, failed polls and get_status_info leave it unchanged.
C22_SinceOnlyOnTransitionOrFirstReading ==
    [][/\ last_change_time' >= last_change_time
       /\ last_change_time' # last_change_time =>
             (ConfirmedTransitionStep \/ FirstReadingStep)]_vars

C22_Witness ==
    /\ pc = "sleep"
    /\ hpc = "done"
    /\ Len(calls) = 1
    /\ Len(readings) = 2
    /\ last_change_time = 40
    /\ last_status = "False"

\* C28: when get_status_info reads last_status, the tracker holds a
\* settled pair, the duration already computed is the time since that
\* pair's last_change_time, and the status read equals the current-state
\* row if the transition being handled has already written it.
C28_SnapshotConsistent ==
    [][(hpc = "status_info" /\ hpc' = "done") =>
          /\ pc # "update_time"
          /\ info.since = last_change_time
          /\ (pc \in {"cb_send", "update", "update_time"} /\ db_state = cb_has_power)
                => info'.has_power = db_state]_vars

\* C23: when two or more Definite slots of the cached today document
\* contain the queried minute, the expected end is the end of the one that
\* comes first in the document, whether a later one ends later or earlier.
C23_FirstOverlappingSlotWins ==
    (pc = "classified" /\ Cardinality(MatchingSlots(data, now \div 60)) >= 2) =>
        LET ms == MatchingSlots(data, now \div 60) IN
        /\ is_planned
        /\ \E i \in ms :
              /\ \A j \in ms : i <= j
              /\ end_time = minutes_to_time(data.slots[i].end)
        /\ data.slots = <<Slot("Definite", 600, 720), Slot("Definite", 0, 1440)>>
              => end_time = <<"1", "2", ":", "0", "0">>
        /\ data.slots = <<Slot("Definite", 0, 1440), Slot("Definite", 600, 720)>>
              => end_time = <<"2", "4", ":", "0", "0">>

C23_Witness ==
    /\ pc = "classified"
    /\ now \div 60 = 630
    /\ data.slots = <<Slot("Definite", 600, 720), Slot("Definite", 0, 1440)>>
    /\ is_planned
    /\ end_time = <<"1", "2", ":", "0", "0">>

\* the rows of maximal total duration
MaximalRows(rs) ==
    {i \in 1..Len(rs) :
        \A j \in 1..Len(rs) :
            rs[j].total_outage_duration_seconds <= rs[i].total_outage_duration_seconds}

WorstNamed == StatsJobRan /\ rows # <<>> /\ text.worst # <<>>

\* C24 as stated: the worst day a weekly or monthly report names is a row
\* of maximal total duration, and among the rows tied for the maximum it
\* is the one with the earliest date.
C24_WorstDayEarliestDate ==
    WorstNamed =>
        \E i \in MaximalRows(rows) :
            /\ text.worst = <<rows[i].stat_date, rows[i].total_outages,
                              rows[i].total_outage_duration_seconds>>
            /\ \A j \in MaximalRows(rows) : rows[i].stat_date <= rows[j].stat_date

\* C24 amended: the worst day named is a row of maximal total duration,
\* and among the rows tied for the maximum it is the first in the returned
\* ordering, which is the most recent date.
C24_WorstDayFirstInOrdering ==
    WorstNamed =>
        \E i \in MaximalRows(rows) :
            /\ text.worst = <<rows[i].stat_date, rows[i].total_outages,
                              rows[i].total_outage_duration_seconds>>
            /\ \A j \in MaximalRows(rows) :
                  i <= j /\ rows[i].stat_date >= rows[j].stat_date

C24_Witness ==
    /\ WorstNamed
    /\ Len(rows) = 2
    /\ rows[1].total_outage_duration_seconds = 7
    /\ rows[2].total_outage_duration_seconds = 7
    /\ text.worst = <<rows[1].stat_date, 2, 7>>

\* the quiet hours 23:00 - 06:00, by the minute of the day
InsideQuietHours(t) ==
    LET m == (t % 86400) \div 60 IN m >= 23 * 60 \/ m < 6 * 60

\* C25: every notification delivered, by on_power_change or by a digest
\* job, is marked silent exactly if the moment it is sent lies in the quiet
\* hours.
C25_SilentIffQuietHours ==
    [][sent' # sent =>
          /\ Len(sent') = Len(sent) + 1
          /\ sent'[Len(sent')].silent <=> InsideQuietHours(now')]_vars

C25_Witness ==
    /\ pc = "digest_done"
    /\ kyiv_time_of_day(now) = 6 * 3600 + 15 * 60
    /\ Len(sent) = 1
    /\ sent[1].kind = "daily"
    /\ ~sent[1].silent

C25_WitnessTransition ==
    /\ pc = "update"
    /\ kyiv_time_of_day(now) = 5 * 3600 + 59 * 60 + 59
    /\ Len(sent) = 1
    /\ sent[1].kind = "transition"
    /\ sent[1].silent

\* C26: any two consecutive events of the log have opposite has_power.
C26_EventsAlternate ==
    \A i \in 1..(Len(events) - 1) : events[i].has_power # events[i + 1].has_power

\* the step in which on_power_change raises
CallbackRaises == pc = "cb_classify" /\ ~classified'

\* C27: a callback that raises leaves last_status and last_change_time at
\* their values from before the transition, the tracker adopts a reading
\* only after a callback that returned, and the next successful poll that
\* differs from last_status invokes the callback again with a duration
\* still measured from the old last_change_time.
C27_RaiseKeepsTrackerState ==
    [][/\ CallbackRaises =>
             /\ last_status' = last_status
             /\ last_change_time' = last_change_time
             /\ last_status' # current_status'
       /\ (last_status # "None" /\ last_status' # last_status) => classified
       /\ (cb_raised /\ pc = "poll" /\ last_status # "None"
              /\ current_status' \notin {"None", last_status}) =>
             calls' = Append(calls, [has_power |-> current_status',
                                     duration_seconds |-> now - last_change_time,
                                     at |-> now])
       /\ \A i \in 1..(Len(calls') - 1) :
             calls'[i].has_power = calls'[i + 1].has_power =>
                /\ cb_raised'
                /\ calls'[i + 1].duration_seconds =
                      calls'[i].duration_seconds + (calls'[i + 1].at - calls'[i].at)]_vars

C27_Witness ==
    /\ cb_raised
    /\ Len(calls) = 2
    /\ calls[1].has_power = calls[2].has_power
    /\ calls[2].duration_seconds = calls[1].duration_seconds + PollInterval
    /\ last_status # calls[2].has_power
    /\ events = <<>>

\* C29: once every concurrent fetch_schedule call has finished, the cache
\* holds the document the provider served last.
C29_CacheHoldsLastServed ==
    ((\A c \in Callers : ~inflight[c].busy) /\ served # <<>>)
        => data = served[Len(served)]

\* C30: an event stored with an expected end time is a power-lost event
\* stored as planned; power-restored events and unplanned power-lost
\* events have none.
C30_EndTimeOnlyOnPlannedOutage ==
    \A i \in 1..Len(events) :
        events[i].expected_end_time # NoTime =>
            (events[i].has_power = "False" /\ events[i].is_planned)

====
